---- MODULE Spec2Model ----
(***************************************************************************)
(* A model of the raycasting engine (src/src/lib.rs, src/src/map.rs,       *)
(* src/src/raycaster/mod.rs, src/src/raycaster/math.rs,                    *)
(* src/src/renderer/mod.rs).                                               *)
(*                                                                         *)
(* Numbers.  The program computes in f32.  Here                            *)
(*   - angles are integer degrees on a 5 degree grid; cos and sin come     *)
(*     from a fixed-point table scaled by TrigScale, so cos(to_radians(d)) *)
(*     is CosDeg(d) / TrigScale;                                           *)
(*   - the player position is in integer world units; a motion step is     *)
(*     rounded toward zero to a whole unit;                                *)
(*   - an intersection point is an exact rational [xn, yn, den];           *)
(*   - a distance is an exact rational [num, den] standing for             *)
(*     TrigScale * num / den world units, or INFINITY;                     *)
(*   - time is counted in ticks, TicksPerSec to the second.                *)
(* Option<T> is a sequence: None is << >>, Some(x) is << x >>.             *)
(* An operator that binds an intermediate value does so through the        *)
(* parameter of a second operator, to which it hands the value.            *)
(***************************************************************************)
EXTENDS Integers, Sequences, FiniteSets, TLC

(***************************************************************************)
(* Program constants                                                       *)
(***************************************************************************)
tile_size == 64
wall_height == 64
player_height == 32
fov == 60
InitialX == 100
InitialY == 100
InitialRotation == 10
MoveSpeedPerSec == 150
CursorRotationDivisor == 40
CursorLookDivisor == 4

(* fixed-point scale of the trigonometric table *)
TrigScale == 100
(* resolution of Instant / Duration *)
TicksPerSec == 10

(***************************************************************************)
(* Bounds of the model                                                     *)
(***************************************************************************)
MaxDelta == 1
MaxFrames == 2
MaxTurns == 1
MaxRotation == 400
MaxTileId == 2
MaxX == 800
MaxFov == 120
MaxWidth == 12

(***************************************************************************)
(* Option, f32 helpers                                                     *)
(***************************************************************************)
None == << >>
Some(x) == << x >>
IsSome(o) == Len(o) = 1
Unwrap(o) == o[1]

Abs(a) == IF a < 0 THEN -a ELSE a

(* Rust's % on a signed value: the remainder takes the sign of the dividend *)
Rem(a, b) == IF a >= 0 THEN a % b ELSE -((-a) % b)

(* rounding toward zero *)
Trunc(a, b) == IF a >= 0 THEN a \div b ELSE -((-a) \div b)

INFINITY == [inf |-> TRUE, num |-> 0, den |-> 1]
Finite(n, d) == [inf |-> FALSE, num |-> n, den |-> d]

(* a < b on distances *)
DistLess(a, b) ==
    IF a.inf THEN FALSE
    ELSE IF b.inf THEN TRUE
    ELSE a.num * b.den < b.num * a.den

(* f32::floor of a distance, in world units *)
DistFloor(a) ==
    IF a.inf THEN INFINITY ELSE Finite((TrigScale * a.num) \div a.den, 1)

CosTable ==
    << 100, 100, 98, 97, 94, 91, 87, 82, 77, 71, 64, 57, 50, 42, 34, 26, 17, 9, 0 >>

(* cos of an angle a of [0, 360), scaled by TrigScale *)
CosIn(a) ==
    IF a <= 90 THEN CosTable[(a \div 5) + 1]
    ELSE IF a <= 180 THEN -CosTable[((180 - a) \div 5) + 1]
    ELSE IF a <= 270 THEN -CosTable[((a - 180) \div 5) + 1]
    ELSE CosTable[((360 - a) \div 5) + 1]

(* f32::cos of d.to_radians(), scaled by TrigScale *)
CosDeg(d) == CosIn(d % 360)

(* f32::sin of d.to_radians(), scaled by TrigScale *)
SinDeg(d) == CosIn((d - 90) % 360)

(***************************************************************************)
(* raycaster/math.rs                                                       *)
(***************************************************************************)
(* keep_in_range with a single remainder, which keeps the sign of x - min *)
keep_in_range_single_rem(x, min, max) == min + Rem(x - min, max - min)

keep_in_range(x, min, max) ==
    min + Rem(Rem(x - min, max - min) + (max - min), max - min)

(* the end of ray_line_intersection without the test of t: the point of    *)
(* the segment's whole line is taken                                       *)
LinePointOffSegment(rx1, ry1, c, s, denom, tn, un) ==
    IF un >= 0
    THEN Some([xn |-> rx1 * denom + un * c,
               yn |-> ry1 * denom + un * s,
               den |-> denom])
    ELSE None

(* the end of ray_line_intersection: denom, t = tn / denom, u = un / denom *)
(* with denom > 0                                                          *)
LinePoint(rx1, ry1, c, s, denom, tn, un) ==
    IF 0 <= tn /\ tn <= denom /\ un >= 0
    THEN Some([xn |-> rx1 * denom + un * c,
               yn |-> ry1 * denom + un * s,
               den |-> denom])
    ELSE None

LineHit(rx1, ry1, c, s, denom, tn, un) ==
    IF denom = 0 THEN None
    ELSE IF denom > 0 THEN LinePoint(rx1, ry1, c, s, denom, tn, un)
    ELSE LinePoint(rx1, ry1, c, s, -denom, -tn, -un)

(* the ray runs from (rx1, ry1) to (rx1 + c, ry1 + s): r = 1 *)
LineHitAlong(rx1, ry1, c, s, lx1, ly1, lx2, ly2) ==
    LineHit(rx1, ry1, c, s,
            (lx1 - lx2) * (-s) - (ly1 - ly2) * (-c),
            (lx1 - rx1) * (-s) - (ly1 - ry1) * (-c),
            (lx1 - rx1) * (ly1 - ly2) - (ly1 - ry1) * (lx1 - lx2))

ray_line_intersection(rx1, ry1, ray_angle, lx1, ly1, lx2, ly2) ==
    LineHitAlong(rx1, ry1, CosDeg(ray_angle), SinDeg(ray_angle), lx1, ly1, lx2, ly2)

(* sqrt(dx * dx + dy * dy) for a point pos of the ray along (c, s): the    *)
(* length of the ray up to pos                                             *)
DistAlong(dx, dy, c, s, den) ==
    IF c >= s THEN Finite(dx \div c, den) ELSE Finite(dy \div s, den)

EuclidDist(rx1, ry1, ray_angle, pos) ==
    DistAlong(Abs(rx1 * pos.den - pos.xn), Abs(ry1 * pos.den - pos.yn),
              Abs(CosDeg(ray_angle)), Abs(SinDeg(ray_angle)), pos.den)

(* the two end points of a side of the tile whose corner is (x1, y1) *)
SideOf(x1, y1, side) ==
    CASE side = "Top" -> << x1, y1, x1 + tile_size, y1 >>
      [] side = "Right" -> << x1 + tile_size, y1, x1 + tile_size, y1 + tile_size >>
      [] side = "Bottom" -> << x1 + tile_size, y1 + tile_size, x1, y1 + tile_size >>
      [] side = "Left" -> << x1, y1 + tile_size, x1, y1 >>

SideSegment(row, col, side) == SideOf(col * tile_size, row * tile_size, side)

(* the update of the record that keeps the first hit found *)
CloserFirst(acc, side, intersection, d) ==
    IF acc.closest = None
    THEN [record |-> d, closest |-> intersection, side |-> side]
    ELSE acc

(* record = d.min(record); if d <= record { ... } *)
Closer(acc, side, intersection, d) ==
    IF ~DistLess(acc.record, d)
    THEN [record |-> d, closest |-> intersection, side |-> side]
    ELSE acc

SideHit(acc, rx1, ry1, ray_angle, side, intersection) ==
    IF IsSome(intersection)
    THEN Closer(acc, side, intersection,
                EuclidDist(rx1, ry1, ray_angle, Unwrap(intersection)))
    ELSE acc

SideHitOn(acc, rx1, ry1, ray_angle, side, seg) ==
    SideHit(acc, rx1, ry1, ray_angle, side,
            ray_line_intersection(rx1, ry1, ray_angle, seg[1], seg[2], seg[3], seg[4]))

(* one pass of the loop over the two sides; acc is [record, closest, side] *)
TileSideStep(acc, rx1, ry1, row, col, ray_angle, side) ==
    SideHitOn(acc, rx1, ry1, ray_angle, side, SideSegment(row, col, side))

TileResult(acc) ==
    IF IsSome(acc.closest)
    THEN Some([dist |-> acc.record,
               intersection |-> Unwrap(acc.closest),
               side |-> acc.side])
    ELSE None

ray_tile_intersection(rx1, ry1, row, col, ray_angle, sides) ==
    TileResult(
        TileSideStep(
            TileSideStep([record |-> INFINITY, closest |-> None, side |-> "Top"],
                         rx1, ry1, row, col, ray_angle, sides[1]),
            rx1, ry1, row, col, ray_angle, sides[2]))

(***************************************************************************)
(* map.rs                                                                  *)
(***************************************************************************)
(* Map::size; tiles[0] panics on an empty grid *)
SizePanics(map) == Len(map.tiles) = 0
MapCols(map) == Len(map.tiles[1])
MapRows(map) == Len(map.tiles)

(* Map::tile_id; tiles[row][col] panics when the row is too short *)
TileIdPanics(map, row, col) == col + 1 > Len(map.tiles[row + 1])
tile_id(map, row, col) == Some(map.tiles[row + 1][col + 1])

(* Map::tile_type: HashMap::get(..).copied() *)
tile_type(map, id) ==
    IF id \in DOMAIN map.tile_types THEN Some(map.tile_types[id]) ELSE None

(***************************************************************************)
(* renderer/mod.rs                                                         *)
(***************************************************************************)
DefaultWallInstance ==
    [screen_x |-> 0,
     top |-> [nan |-> FALSE, v |-> 0],
     height |-> [nan |-> FALSE, v |-> 0],
     tex_u |-> [num |-> 0, den |-> 1],
     tex_layer |-> 0]

(* one pass of the loop of load_textures over the tile types; acc holds    *)
(* the three maps and the lengths of the three byte arrays                 *)
LoadTextureStep(acc, k, v) ==
    CASE v = "Wall" ->
           [acc EXCEPT !.wall_image_map = (k :> acc.wall_len) @@ @,
                       !.wall_len = @ + 1]
      [] v = "Floor" ->
           [acc EXCEPT !.floor_image_map = (k :> acc.floor_len) @@ @,
                       !.floor_len = @ + 1]
      [] v = "Ceiling" ->
           [acc EXCEPT !.ceiling_image_map = (k :> acc.ceiling_len) @@ @,
                       !.ceiling_len = @ + 1]
      [] v = "FloorCeiling" ->
           [acc EXCEPT !.floor_image_map = (k :> acc.floor_len) @@ @,
                       !.ceiling_image_map = (k :> (acc.ceiling_len + 1)) @@ @,
                       !.floor_len = @ + 1,
                       !.ceiling_len = @ + 1]

RECURSIVE LoadTexturesFrom(_, _, _, _)
LoadTexturesFrom(acc, tile_types, order, i) ==
    IF i > Len(order) THEN acc
    ELSE LoadTexturesFrom(LoadTextureStep(acc, order[i], tile_types[order[i]]),
                          tile_types, order, i + 1)

(* order: the order in which the HashMap hands out its keys *)
load_textures(tile_types, order) ==
    LoadTexturesFrom([wall_image_map |-> << >>, floor_image_map |-> << >>,
                      ceiling_image_map |-> << >>,
                      wall_len |-> 0, floor_len |-> 0, ceiling_len |-> 0],
                     tile_types, order, 1)

(* Renderer::get_texture_index for TextureCategory::Wall: the unwrap of a  *)
(* missing key panics                                                      *)
get_texture_index(image_map, k) ==
    IF k \in DOMAIN image_map
    THEN [outcome |-> "Ok", index |-> image_map[k]]
    ELSE [outcome |-> "Panic", index |-> 0]

set_wall_instance(instances, index, instance) ==
    [instances EXCEPT ![index + 1] = instance]

(***************************************************************************)
(* raycaster/mod.rs: the tables                                            *)
(***************************************************************************)
(* get_ray_angles whose first angle is 0: the half of fov is not taken off *)
get_ray_angles_from_zero(fov_, width) ==
    [i \in 1..width |-> (i - 1) * (fov_ \div width)]

get_ray_angles(fov_, width) ==
    [i \in 1..width |-> (i - 1) * (fov_ \div width) - fov_ \div 2]

(* the loop of get_fish_table from offset n on; table is None once an      *)
(* index was out of range                                                  *)
RECURSIVE FishTableFrom(_, _, _, _)
FishTableFrom(table, n, half, width) ==
    IF n >= half THEN Some(table)
    ELSE IF n + half < 0 \/ n + half >= Len(table) THEN None
    ELSE FishTableFrom(
             [table EXCEPT ![n + half + 1] =
                 [num |-> TrigScale, den |-> CosDeg((n * 60) \div width)]],
             n + 1, half, width)

(* None: the index (n + half) as usize was out of range, a panic *)
get_fish_table(width) ==
    FishTableFrom([i \in 1..width |-> [num |-> 0, den |-> 1]],
                  (-width) \div 2, width \div 2, width)

QuadrantOf(id) ==
    CASE id = 0 -> "BottomRight"
      [] id = 1 -> "BottomLeft"
      [] id = 2 -> "TopLeft"
      [] id = 3 -> "TopRight"
      [] OTHER -> "BottomRight"

(* get_angle_quadrant that rounds to the nearest quarter turn *)
get_angle_quadrant_nearest(angle) == QuadrantOf((angle + 45) \div 90)

get_angle_quadrant(angle) == QuadrantOf(angle \div 90)

(* the table of the sides with Top in the place of Bottom for TopRight *)
SidesToCheckTopRightTop(quadrant) ==
    CASE quadrant = "BottomRight" -> << "Top", "Left" >>
      [] quadrant = "BottomLeft" -> << "Top", "Right" >>
      [] quadrant = "TopLeft" -> << "Right", "Bottom" >>
      [] quadrant = "TopRight" -> << "Top", "Left" >>

SidesToCheck(quadrant) ==
    CASE quadrant = "BottomRight" -> << "Top", "Left" >>
      [] quadrant = "BottomLeft" -> << "Top", "Right" >>
      [] quadrant = "TopLeft" -> << "Right", "Bottom" >>
      [] quadrant = "TopRight" -> << "Bottom", "Left" >>

NewRay(angle, fisheye) ==
    [len |-> INFINITY,
     angle |-> angle,
     fisheye_correction |-> fisheye,
     tile_index |-> None,
     tile_intersection |-> None,
     tile_id |-> None,
     tile_type |-> None,
     tile_side |-> None,
     tile_image_index |-> None]

(* update_intersection that keeps the side and the texture layer of the    *)
(* ray when the frame brings none                                          *)
update_intersection_keep(ray, len, t_index, t_intersection, t_type, t_side, t_id, t_image) ==
    [ray EXCEPT !.len = len,
                !.tile_index = t_index,
                !.tile_intersection = t_intersection,
                !.tile_type = t_type,
                !.tile_side = IF t_side = None THEN ray.tile_side ELSE t_side,
                !.tile_id = t_id,
                !.tile_image_index =
                    IF t_image = None THEN ray.tile_image_index ELSE t_image]

update_intersection(ray, len, t_index, t_intersection, t_type, t_side, t_id, t_image) ==
    [ray EXCEPT !.len = len,
                !.tile_index = t_index,
                !.tile_intersection = t_intersection,
                !.tile_type = t_type,
                !.tile_side = t_side,
                !.tile_id = t_id,
                !.tile_image_index = t_image]

(***************************************************************************)
(* raycaster/mod.rs: the frame                                             *)
(***************************************************************************)
(* move_dir without the diagonal of forward and right: it goes right *)
move_dir_no_diagonal(pc, rotation) ==
    IF pc.key_forward /\ ~pc.key_right /\ ~pc.key_left THEN rotation
    ELSE IF pc.key_back /\ ~pc.key_right /\ ~pc.key_left THEN rotation + 180
    ELSE IF pc.key_right /\ ~pc.key_back THEN rotation + 90
    ELSE IF pc.key_left /\ ~pc.key_forward /\ ~pc.key_back THEN rotation - 90
    ELSE IF pc.key_forward /\ pc.key_left THEN rotation - 45
    ELSE IF pc.key_back /\ pc.key_right THEN rotation + 135
    ELSE IF pc.key_back /\ pc.key_left THEN rotation - 135
    ELSE rotation

move_dir(pc, rotation) ==
    IF pc.key_forward /\ ~pc.key_right /\ ~pc.key_left THEN rotation
    ELSE IF pc.key_back /\ ~pc.key_right /\ ~pc.key_left THEN rotation + 180
    ELSE IF pc.key_right /\ ~pc.key_forward /\ ~pc.key_back THEN rotation + 90
    ELSE IF pc.key_left /\ ~pc.key_forward /\ ~pc.key_back THEN rotation - 90
    ELSE IF pc.key_forward /\ pc.key_right THEN rotation + 45
    ELSE IF pc.key_forward /\ pc.key_left THEN rotation - 45
    ELSE IF pc.key_back /\ pc.key_right THEN rotation + 135
    ELSE IF pc.key_back /\ pc.key_left THEN rotation - 135
    ELSE rotation

(* a move_speed that does not scale with the elapsed time: one tick's step *)
MoveSpeedFixed(delta) == MoveSpeedPerSec \div TicksPerSec

(* 150.0 * delta_time.as_secs_f32(), delta_time in ticks *)
MoveSpeed(delta) == (MoveSpeedPerSec * delta) \div TicksPerSec

(* the position after a step of move_speed along dir *)
Advance(pos, move_speed, dir) ==
    [x |-> pos.x + Trunc(move_speed * CosDeg(dir), TrigScale),
     y |-> pos.y + Trunc(move_speed * SinDeg(dir), TrigScale)]

(* update_positions without the test of the flags *)
update_positions_always(pos, pc, rotation, delta) ==
    Advance(pos, MoveSpeed(delta), keep_in_range(move_dir(pc, rotation), 0, 360))

update_positions(pos, pc, rotation, delta) ==
    IF pc.key_forward \/ pc.key_back \/ pc.key_left \/ pc.key_right
    THEN Advance(pos, MoveSpeed(delta), keep_in_range(move_dir(pc, rotation), 0, 360))
    ELSE pos

(* ScanStep without the test of the tile type: any cell can take the hit *)
ScanStepAnyType(acc, index, tile_id_temp, tile_type_temp, hit) ==
    IF IsSome(hit) /\ DistLess(Unwrap(hit).dist, acc.record)
    THEN [record |-> Unwrap(hit).dist,
          closest |-> Some(Unwrap(hit).intersection),
          tile_side |-> Some(Unwrap(hit).side),
          tile_index |-> Some(index),
          tile_id |-> tile_id_temp,
          tile_type |-> tile_type_temp]
    ELSE acc

(* ScanStep that takes a hit at an equal distance too: the later cell wins *)
ScanStepLastWins(acc, index, tile_id_temp, tile_type_temp, hit) ==
    IF tile_type_temp # Some("Wall") THEN acc
    ELSE IF IsSome(hit) /\ ~DistLess(acc.record, Unwrap(hit).dist)
         THEN [record |-> Unwrap(hit).dist,
               closest |-> Some(Unwrap(hit).intersection),
               tile_side |-> Some(Unwrap(hit).side),
               tile_index |-> Some(index),
               tile_id |-> tile_id_temp,
               tile_type |-> tile_type_temp]
         ELSE acc

(* the body of the loop over the cells, after the reads of the cell; acc   *)
(* holds record, closest, tile_index, tile_id, tile_type, tile_side        *)
ScanStep(acc, index, tile_id_temp, tile_type_temp, hit) ==
    IF tile_type_temp # Some("Wall") THEN acc
    ELSE IF IsSome(hit) /\ DistLess(Unwrap(hit).dist, acc.record)
         THEN [record |-> Unwrap(hit).dist,
               closest |-> Some(Unwrap(hit).intersection),
               tile_side |-> Some(Unwrap(hit).side),
               tile_index |-> Some(index),
               tile_id |-> tile_id_temp,
               tile_type |-> tile_type_temp]
         ELSE acc

ScanCell(acc, map, pos, adjusted_angle, sides_to_check, row, col) ==
    ScanStep(acc, row * MapCols(map) + col,
             tile_id(map, row, col),
             tile_type(map, Unwrap(tile_id(map, row, col))),
             ray_tile_intersection(pos.x, pos.y, row, col, adjusted_angle,
                                   sides_to_check))

(* the scan of the cells from cell k on, row-major *)
RECURSIVE ScanTilesFrom(_, _, _, _, _, _)
ScanTilesFrom(acc, k, map, pos, adjusted_angle, sides_to_check) ==
    IF MapCols(map) = 0 \/ k >= MapRows(map) * MapCols(map) THEN acc
    ELSE ScanTilesFrom(
             ScanCell(acc, map, pos, adjusted_angle, sides_to_check,
                      k \div MapCols(map), k % MapCols(map)),
             k + 1, map, pos, adjusted_angle, sides_to_check)

ScanAlong(map, pos, adjusted_angle) ==
    ScanTilesFrom([record |-> INFINITY, closest |-> None,
                   tile_side |-> None, tile_index |-> None,
                   tile_id |-> None, tile_type |-> None],
                  0, map, pos, adjusted_angle,
                  SidesToCheck(get_angle_quadrant(adjusted_angle)))

(* the search of one ray over the grid: the closest hit *)
RayScan(ray, map, pos, rotation) ==
    ScanAlong(map, pos, keep_in_range(ray.angle + rotation, 0, 360))

(* the body of the loop of update_rays for one ray, after the scan acc;    *)
(* None: get_texture_index panicked                                        *)
RayAfterScan(ray, acc, image_map) ==
    IF IsSome(acc.closest) /\ IsSome(acc.tile_index) /\ IsSome(acc.tile_id)
       /\ IsSome(acc.tile_type) /\ IsSome(acc.tile_side)
    THEN IF get_texture_index(image_map, Unwrap(acc.tile_id)).outcome = "Panic"
         THEN None
         ELSE Some(update_intersection(ray, DistFloor(acc.record), acc.tile_index,
                  acc.closest, acc.tile_type, acc.tile_side, acc.tile_id,
                  Some(get_texture_index(image_map, Unwrap(acc.tile_id)).index)))
    ELSE Some(update_intersection(ray, DistFloor(acc.record),
                  None, None, None, None, None, None))

CastRay(ray, map, image_map, pos, rotation) ==
    RayAfterScan(ray, RayScan(ray, map, pos, rotation), image_map)

(* a cell whose read panics: the row is shorter than the first row *)
ScanPanics(map) ==
    \E row \in 0..(MapRows(map) - 1) :
        \E col \in 0..(MapCols(map) - 1) : TileIdPanics(map, row, col)

(* the rays after the loop of update_rays, each ray cast in place *)
CastAll(rays_, map, image_map, pos, rotation) ==
    [i \in 1..Len(rays_) |-> CastRay(rays_[i], map, image_map, pos, rotation)]

(* RaysOf with a ray without a hit keeping its earlier state *)
RaysOfStale(rays_, cast) ==
    IF \E i \in 1..Len(cast) : cast[i] = None THEN None
    ELSE Some([i \in 1..Len(cast) |->
                 IF IsSome(Unwrap(cast[i]).tile_id) THEN Unwrap(cast[i])
                 ELSE rays_[i]])

(* the end of update_rays: the first panic ends it *)
RaysOf(rays_, cast) ==
    IF \E i \in 1..Len(cast) : cast[i] = None THEN None
    ELSE Some([i \in 1..Len(cast) |-> Unwrap(cast[i])])

(* update_rays; None: it ended in a panic (Map::size on an empty grid, a   *)
(* read past the end of a row, a tile id without a texture layer)          *)
update_rays(rays_, map, image_map, pos, rotation) ==
    IF SizePanics(map) \/ (Len(rays_) > 0 /\ ScanPanics(map)) THEN None
    ELSE RaysOf(rays_, CastAll(rays_, map, image_map, pos, rotation))

(* 1 / cos(30 degrees) * width / 2, as [num, den] *)
DistToProjectionPlane(width) ==
    [num |-> width * CosDeg(fov \div 2), den |-> 2 * SinDeg(fov \div 2)]

(* an f32 that holds a whole number of pixels, or NaN *)
F32(v) == [nan |-> FALSE, v |-> v]
NaN == [nan |-> TRUE, v |-> 0]

(* the offset into the texture without the mirroring of Top and Bottom *)
TextureOffsetUnmirrored(intersection, side) ==
    IF side = "Top" \/ side = "Bottom"
    THEN (intersection.xn \div intersection.den) % tile_size
    ELSE (intersection.yn \div intersection.den) % tile_size

(* the offset into the texture of the point of the hit *)
TextureOffset(intersection, side) ==
    IF side = "Top" \/ side = "Bottom"
    THEN tile_size - ((intersection.xn \div intersection.den) % tile_size) - 1
    ELSE (intersection.yn \div intersection.den) % tile_size

(* the instance of a wall whose bottom and height on the screen are known *)
WallColumn(i, wall_bottom, scale, offset, layer) ==
    [screen_x |-> i,
     top |-> F32(wall_bottom - scale),
     height |-> F32(wall_bottom - (wall_bottom - scale)),
     tex_u |-> [num |-> 2 * offset + 1, den |-> 2 * tile_size],
     tex_layer |-> layer]

(* dist = ray.len / fisheye_correction = dist_num / dist_den *)
InstanceAt(i, dist_num, dist_den, pdpp, y_center, offset, layer) ==
    IF dist_num = 0 \/ dist_den = 0
    THEN [screen_x |-> i, top |-> NaN, height |-> NaN,
          tex_u |-> [num |-> 2 * offset + 1, den |-> 2 * tile_size],
          tex_layer |-> layer]
    ELSE WallColumn(i,
             (pdpp.num * player_height * dist_den) \div (pdpp.den * dist_num) + y_center,
             (pdpp.num * wall_height * dist_den) \div (pdpp.den * dist_num),
             offset, layer)

(* the instance of a ray that holds a hit *)
HitInstance(i, ray, image_map, pdpp, y_center) ==
    InstanceAt(i, ray.len.num * ray.fisheye_correction.den,
               ray.fisheye_correction.num, pdpp, y_center,
               TextureOffset(Unwrap(ray.tile_intersection), Unwrap(ray.tile_side)),
               get_texture_index(image_map, Unwrap(ray.tile_id)).index)

(* QuadStep with a column without a hit left as it was *)
QuadStepSkipMiss(instances, i, ray, image_map, pdpp, y_center) ==
    IF IsSome(ray.tile_intersection) /\ IsSome(ray.tile_side) /\ IsSome(ray.tile_id)
    THEN set_wall_instance(instances, i, HitInstance(i, ray, image_map, pdpp, y_center))
    ELSE instances

(* the body of the loop of update_quads for column i (from 0) *)
QuadStep(instances, i, ray, image_map, pdpp, y_center) ==
    IF IsSome(ray.tile_intersection) /\ IsSome(ray.tile_side) /\ IsSome(ray.tile_id)
    THEN set_wall_instance(instances, i, HitInstance(i, ray, image_map, pdpp, y_center))
    ELSE set_wall_instance(instances, i, DefaultWallInstance)

RECURSIVE QuadsFrom(_, _, _, _, _, _)
QuadsFrom(instances, i, rays_, image_map, pdpp, y_center) ==
    IF i >= Len(rays_) THEN instances
    ELSE QuadsFrom(QuadStep(instances, i, rays_[i + 1], image_map, pdpp, y_center),
                   i + 1, rays_, image_map, pdpp, y_center)

(* set_wall_instance panics on an index past the end of wall_instances *)
UpdateQuadsPanics(instances, rays_) == Len(rays_) > Len(instances)

update_quads(instances, rays_, image_map, pdpp, y_center) ==
    QuadsFrom(instances, 0, rays_, image_map, pdpp, y_center)

(***************************************************************************)
(* The inputs                                                              *)
(***************************************************************************)
MapRoom ==
    [tiles |-> << << 1, 1, 1 >>, << 1, 0, 1 >>, << 1, 1, 1 >> >>,
     tile_types |-> (0 :> "Floor") @@ (1 :> "Wall")]

MapOpen ==
    [tiles |-> << << 0, 0, 1 >>, << 0, 0, 2 >>, << 0, 0, 0 >> >>,
     tile_types |-> (0 :> "FloorCeiling") @@ (1 :> "Wall") @@ (2 :> "Wall")]

(* the cell east of the start holds id 3, which has no TileType *)
MapNoType ==
    [tiles |-> << << 1, 0, 0 >>, << 0, 0, 3 >> >>,
     tile_types |-> (0 :> "Floor") @@ (1 :> "Wall")]

MapEmpty ==
    [tiles |-> << >>,
     tile_types |-> (0 :> "Floor") @@ (1 :> "Wall")]

MapJagged ==
    [tiles |-> << << 0, 0, 1 >>, << 0, 1 >> >>,
     tile_types |-> (0 :> "Floor") @@ (1 :> "Wall")]

Maps == { MapRoom, MapOpen, MapNoType, MapEmpty, MapJagged }

(* a non-empty grid whose rows all have the length of the first *)
WellFormed(map) ==
    /\ Len(map.tiles) > 0
    /\ \A r \in 1..Len(map.tiles) : Len(map.tiles[r]) = Len(map.tiles[1])
    /\ Len(map.tiles[1]) > 0

(* the tile ids of the grid *)
GridIds(map) ==
    UNION { { map.tiles[r][c] : c \in 1..Len(map.tiles[r]) } :
            r \in 1..Len(map.tiles) }

WindowSizes == { << 1, 2 >>, << 2, 2 >> }
ResizeSizes == { << 0, 0 >>, << 2, 2 >>, << 3, 2 >> }
KeyCodes == { "KeyW", "KeyD", "Escape" }
CursorDeltas == { << -400, 0 >>, << 3600, 4 >> }

(* the ticks that pass between two calls of render() *)
ElapsedTicks == { 0, 1 }

(* the orders in which a HashMap over the keys S may be walked *)
Orders(S) ==
    { f \in [1..Cardinality(S) -> S] :
        \A i, j \in 1..Cardinality(S) : i # j => f[i] # f[j] }

(***************************************************************************)
(* The state                                                               *)
(***************************************************************************)
VARIABLES
    app,                     \* "none" (App.state is None), "running",
                             \* "panicked", "exited"
    map,                     \* the map of the session
    config,                  \* Renderer.config: [width, height]
    is_surface_configured,
    tile_texture_maps,       \* Renderer.tile_texture_maps
    wall_instances,          \* Renderer.wall_instances
    quad_instance_buffer,    \* the instances last written to the GPU buffer
    drawn,                   \* the instance count of the last draw_indexed
    delta_time,              \* Renderer.delta_time, in ticks
    unrecorded,              \* time of the last render() - last_frame_time
    projection_plane_width,
    projection_plane_y_center,
    player_dist_to_projection_plane,
    rays,
    player_position,
    player_rotation,
    player_controller,
    frames,                  \* the calls of update() so far
    turns,                   \* the mouse motions so far
    outcome,                 \* how the last update() ended: "Ok", "Err",
                             \* "Panic"; "none" before the first
    fresh,                   \* no mouse motion since the last update()
    prev,                    \* of the last update(): whether it moved the
                             \* player, whether it got to draw, the columns
                             \* that held a hit before it, the ticks between
                             \* its render() and the render() before it
    call                     \* the call of a function taken on its own: its
                             \* name, its arguments, its result

vars ==
    << app, map, config, is_surface_configured, tile_texture_maps,
       wall_instances, quad_instance_buffer, drawn, delta_time, unrecorded,
       projection_plane_width, projection_plane_y_center,
       player_dist_to_projection_plane, rays, player_position,
       player_rotation, player_controller, frames, turns, outcome, fresh, prev,
       call >>

renderer_vars ==
    << config, is_surface_configured, tile_texture_maps, wall_instances,
       quad_instance_buffer, drawn, delta_time, unrecorded >>

raycaster_vars ==
    << projection_plane_width, projection_plane_y_center,
       player_dist_to_projection_plane, rays, player_position,
       player_rotation, player_controller >>

ghost_vars == << frames, turns, outcome, fresh, prev, call >>

NoKeys ==
    [key_forward |-> FALSE, key_back |-> FALSE,
     key_left |-> FALSE, key_right |-> FALSE]

NoPrev ==
    [moved |-> FALSE, rendered |-> FALSE, hit_columns |-> { }, elapsed |-> 0]

NoCall == [op |-> "none"]

(* before resumed(): App.state is None *)
Unstarted ==
    /\ app = "none"
    /\ config = [width |-> 0, height |-> 0]
    /\ is_surface_configured = FALSE
    /\ wall_instances = << >>
    /\ quad_instance_buffer = << >>
    /\ drawn = 0
    /\ delta_time = 0
    /\ unrecorded = 0
    /\ projection_plane_width = 0
    /\ projection_plane_y_center = 0
    /\ player_dist_to_projection_plane = [num |-> 0, den |-> 1]
    /\ rays = << >>
    /\ player_position = [x |-> 0, y |-> 0]
    /\ player_rotation = 0
    /\ player_controller = NoKeys
    /\ frames = 0
    /\ turns = 0
    /\ outcome = "none"
    /\ fresh = FALSE
    /\ prev = NoPrev

Init ==
    /\ Unstarted
    /\ map \in Maps
    /\ tile_texture_maps = load_textures(<< >>, << >>)
    /\ call = NoCall

(***************************************************************************)
(* lib.rs: App::resumed, State::new, Renderer::new, Raycaster::new         *)
(***************************************************************************)
(* Renderer::new unwraps the wall texture array, which is None when no     *)
(* tile type is a Wall; Raycaster::new indexes the fisheye table           *)
NewPanics(textures, fish_table) ==
    \/ textures.wall_len = 0
    \/ fish_table = None

Resumed ==
    /\ app = "none"
    /\ \E size \in WindowSizes, order \in Orders(DOMAIN map.tile_types) :
        \E textures \in { load_textures(map.tile_types, order) },
           ray_angles \in { get_ray_angles(fov, size[1]) },
           fish_table \in { get_fish_table(size[1]) } :
            IF NewPanics(textures, fish_table)
            THEN /\ app' = "panicked"
                 /\ UNCHANGED << renderer_vars, raycaster_vars >>
            ELSE /\ app' = "running"
                 /\ config' = [width |-> size[1], height |-> size[2]]
                 /\ is_surface_configured' = FALSE
                 /\ tile_texture_maps' = textures
                 /\ wall_instances' = [i \in 1..size[1] |-> DefaultWallInstance]
                 /\ quad_instance_buffer' = [i \in 1..size[1] |-> DefaultWallInstance]
                 /\ drawn' = 0
                 /\ delta_time' = 0
                 /\ unrecorded' = 0
                 /\ projection_plane_width' = size[1]
                 /\ projection_plane_y_center' = size[2] \div 2
                 /\ player_dist_to_projection_plane' = DistToProjectionPlane(size[1])
                 /\ rays' = [i \in 1..size[1] |-> NewRay(ray_angles[i], Unwrap(fish_table)[i])]
                 /\ player_position' = [x |-> InitialX, y |-> InitialY]
                 /\ player_rotation' = InitialRotation
                 /\ player_controller' = NoKeys
    /\ UNCHANGED << map, ghost_vars >>

(***************************************************************************)
(* lib.rs: App::window_event, App::device_event                            *)
(***************************************************************************)
(* the window delivers events: the session runs and has frames left *)
Live == app = "running" /\ frames < MaxFrames

(* Renderer::resize: the configuration after resize(width, height) *)
resize(r, width, height) ==
    IF width > 0 /\ height > 0
    THEN [r EXCEPT !.config = [width |-> width, height |-> height],
                   !.is_surface_configured = TRUE]
    ELSE r

(* WindowEvent::Resized *)
Resized ==
    /\ Live
    /\ \E size \in ResizeSizes :
        \E r \in { resize([config |-> config,
                            is_surface_configured |-> is_surface_configured],
                           size[1], size[2]) } :
            /\ config' = r.config
            /\ is_surface_configured' = r.is_surface_configured
    /\ UNCHANGED << app, map, tile_texture_maps, wall_instances,
                    quad_instance_buffer, drawn, delta_time, unrecorded,
                    raycaster_vars, ghost_vars >>

(* handle_key where the forward key also drops the back flag *)
handle_key_exclusive(pc, code, is_pressed) ==
    CASE code = "KeyW" -> [pc EXCEPT !.key_forward = is_pressed,
                                     !.key_back = FALSE]
      [] code = "KeyS" -> [pc EXCEPT !.key_back = is_pressed]
      [] code = "KeyD" -> [pc EXCEPT !.key_right = is_pressed]
      [] code = "KeyA" -> [pc EXCEPT !.key_left = is_pressed]
      [] OTHER -> pc

(* the flags after handle_key(code, is_pressed) *)
handle_key(pc, code, is_pressed) ==
    CASE code = "KeyW" -> [pc EXCEPT !.key_forward = is_pressed]
      [] code = "KeyS" -> [pc EXCEPT !.key_back = is_pressed]
      [] code = "KeyD" -> [pc EXCEPT !.key_right = is_pressed]
      [] code = "KeyA" -> [pc EXCEPT !.key_left = is_pressed]
      [] OTHER -> pc

(* WindowEvent::KeyboardInput *)
KeyboardInput ==
    /\ Live
    /\ \E code \in KeyCodes, is_pressed \in BOOLEAN :
        /\ player_controller' = handle_key(player_controller, code, is_pressed)
        /\ app' = IF code = "Escape" /\ is_pressed THEN "exited" ELSE app
    /\ UNCHANGED << map, renderer_vars, projection_plane_width,
                    projection_plane_y_center, player_dist_to_projection_plane,
                    rays, player_position, player_rotation, ghost_vars >>

(* the rotation and the look offset after handle_cursor_move(delta) *)
handle_cursor_move(rotation, y_center, delta) ==
    [rotation |-> rotation + delta[1] \div CursorRotationDivisor,
     y_center |-> y_center - delta[2] \div CursorLookDivisor]

(* DeviceEvent::MouseMotion *)
MouseMotion ==
    /\ Live
    /\ turns < MaxTurns
    /\ \E delta \in CursorDeltas :
        \E m \in { handle_cursor_move(player_rotation, projection_plane_y_center,
                                       delta) } :
            /\ player_rotation' = m.rotation
            /\ projection_plane_y_center' = m.y_center
    /\ turns' = turns + 1
    /\ fresh' = FALSE
    /\ UNCHANGED << app, map, renderer_vars, projection_plane_width,
                    player_dist_to_projection_plane, rays, player_position,
                    player_controller, frames, outcome, prev, call >>

(* WindowEvent::CloseRequested *)
CloseRequested ==
    /\ app = "running"
    /\ app' = "exited"
    /\ UNCHANGED << map, renderer_vars, raycaster_vars, ghost_vars >>

(***************************************************************************)
(* Renderer::render.  elapsed: the ticks since the previous call of        *)
(* render() (since Renderer::new for the first call); acquired: whether    *)
(* surface.get_current_texture() succeeds.                                 *)
(***************************************************************************)
RenderAt(r, delta, acquired) ==
    IF ~r.is_surface_configured
    THEN [r EXCEPT !.outcome = "Ok", !.delta_time = delta, !.unrecorded = delta]
    ELSE IF ~acquired
    THEN [r EXCEPT !.outcome = "Err", !.delta_time = delta, !.unrecorded = delta]
    ELSE [r EXCEPT !.outcome = "Ok", !.delta_time = delta, !.unrecorded = 0,
                   !.rendered = TRUE,
                   !.quad_instance_buffer = r.wall_instances,
                   !.drawn = r.config_width]

render(r, elapsed, acquired) == RenderAt(r, r.unrecorded + elapsed, acquired)

(* the frame as a record: what update() reads and writes *)
Frame ==
    [outcome |-> "Ok",
     rendered |-> FALSE,
     map |-> map,
     image_map |-> tile_texture_maps.wall_image_map,
     config_width |-> config.width,
     is_surface_configured |-> is_surface_configured,
     wall_instances |-> wall_instances,
     quad_instance_buffer |-> quad_instance_buffer,
     drawn |-> drawn,
     delta_time |-> delta_time,
     unrecorded |-> unrecorded,
     y_center |-> projection_plane_y_center,
     pdpp |-> player_dist_to_projection_plane,
     rays |-> rays,
     position |-> player_position,
     rotation |-> player_rotation,
     controller |-> player_controller]

(* the first three stages of Raycaster::update: update_positions,          *)
(* update_rays, update_quads                                               *)
AfterRays(f, pos1, rays1) ==
    IF rays1 = None
    THEN [f EXCEPT !.outcome = "Panic", !.position = pos1]
    ELSE IF UpdateQuadsPanics(f.wall_instances, Unwrap(rays1))
    THEN [f EXCEPT !.outcome = "Panic", !.position = pos1, !.rays = Unwrap(rays1)]
    ELSE [f EXCEPT !.position = pos1, !.rays = Unwrap(rays1),
                   !.wall_instances =
                       update_quads(f.wall_instances, Unwrap(rays1), f.image_map,
                                    f.pdpp, f.y_center)]

(* update_stages with the rays cast from the position the frame began with *)
update_stages_cast_first(f) ==
    AfterRays(f,
              update_positions(f.position, f.controller, f.rotation, f.delta_time),
              update_rays(f.rays, f.map, f.image_map, f.position, f.rotation))

StagesFrom(f, pos1) ==
    AfterRays(f, pos1, update_rays(f.rays, f.map, f.image_map, pos1, f.rotation))

update_stages(f) ==
    StagesFrom(f, update_positions(f.position, f.controller, f.rotation,
                                   f.delta_time))

(* Raycaster::update: the stages, then self.renderer.render()? *)
update(g, elapsed, acquired) ==
    IF g.outcome = "Panic" THEN g ELSE render(g, elapsed, acquired)

(* the columns whose ray holds a hit *)
HitColumns(rays_) == { i \in 1..Len(rays_) : IsSome(rays_[i].tile_intersection) }

(* WindowEvent::RedrawRequested: state.raycaster.update().unwrap() *)
RedrawRequested ==
    /\ Live
    /\ \E g \in { update_stages(Frame) } :
       \E elapsed \in ElapsedTicks, acquired \in BOOLEAN :
       \E f \in { update(g, elapsed, acquired) } :
            /\ app' = IF f.outcome = "Ok" THEN "running" ELSE "panicked"
            /\ outcome' = f.outcome
            /\ player_position' = f.position
            /\ rays' = f.rays
            /\ wall_instances' = f.wall_instances
            /\ quad_instance_buffer' = f.quad_instance_buffer
            /\ drawn' = f.drawn
            /\ delta_time' = f.delta_time
            /\ unrecorded' = f.unrecorded
            /\ prev' = [moved |-> f.position # player_position,
                        rendered |-> f.rendered,
                        hit_columns |-> HitColumns(rays),
                        elapsed |-> elapsed]
    /\ frames' = frames + 1
    /\ fresh' = TRUE
    /\ UNCHANGED << map, config, is_surface_configured, tile_texture_maps,
                    projection_plane_width, projection_plane_y_center,
                    player_dist_to_projection_plane, player_rotation,
                    player_controller, turns, call >>


Next ==
    \/ Resumed
    \/ RedrawRequested
    \/ Resized
    \/ KeyboardInput
    \/ MouseMotion
    \/ CloseRequested

Spec == Init /\ [][Next]_vars

(***************************************************************************)
(* update_positions on its own: every combination of the four flags, the   *)
(* rotations of the 5 degree grid up to MaxRotation either way              *)
(***************************************************************************)
Rotations == { r \in (-MaxRotation)..MaxRotation : r % 5 = 0 }

Controllers ==
    [key_forward : BOOLEAN, key_back : BOOLEAN,
     key_left : BOOLEAN, key_right : BOOLEAN]

InitMove ==
    /\ Unstarted
    /\ map = MapRoom
    /\ tile_texture_maps = load_textures(<< >>, << >>)
    /\ call \in [op : { "args" },
                 position : { [x |-> InitialX, y |-> InitialY] },
                 rotation : Rotations,
                 controller : Controllers,
                 delta : 0..MaxDelta,
                 dir : { 0 },
                 result : { [x |-> InitialX, y |-> InitialY] }]

UpdatePositionsCall ==
    /\ call.op = "args"
    /\ call' = [call EXCEPT
                  !.op = "update_positions",
                  !.dir = keep_in_range(move_dir(call.controller, call.rotation),
                                        0, 360),
                  !.result = update_positions(call.position, call.controller,
                                              call.rotation, call.delta)]
    /\ UNCHANGED << app, map, renderer_vars, raycaster_vars, frames, turns,
                    outcome, fresh, prev >>

NextMove == UpdatePositionsCall

SpecMove == InitMove /\ [][NextMove]_vars

(***************************************************************************)
(* get_texture_index on its own: the layer maps that load_textures builds   *)
(* for the tile types of a map with a wall, any tile id                     *)
(***************************************************************************)
TileKinds == { "Wall", "Floor", "Ceiling", "FloorCeiling" }

TileTypeMaps ==
    UNION { [S -> TileKinds] : S \in SUBSET (0..MaxTileId) }

InitLookup ==
    /\ Unstarted
    /\ map = MapRoom
    /\ \E tile_types \in TileTypeMaps :
        \E order \in Orders(DOMAIN tile_types) :
            /\ tile_texture_maps = load_textures(tile_types, order)
            /\ tile_texture_maps.wall_len > 0
    /\ call \in [op : { "args" },
                 k : 0..(MaxTileId + 1),
                 result : { [outcome |-> "none", index |-> 0] }]

GetTextureIndexCall ==
    /\ call.op = "args"
    /\ call' = [call EXCEPT
                  !.op = "get_texture_index",
                  !.result = get_texture_index(tile_texture_maps.wall_image_map,
                                               call.k)]
    /\ UNCHANGED << app, map, renderer_vars, raycaster_vars, frames, turns,
                    outcome, fresh, prev >>

NextLookup == GetTextureIndexCall

SpecLookup == InitLookup /\ [][NextLookup]_vars

(***************************************************************************)
(* handle_key on its own: a session that receives nothing but key events,  *)
(* for the four movement keys, Escape and a key the match does not name;   *)
(* call holds the last event and the player as the event found it          *)
(***************************************************************************)
AllKeyCodes == { "KeyW", "KeyS", "KeyA", "KeyD", "Escape", "Space" }

InitKey ==
    /\ Unstarted
    /\ map = MapRoom
    /\ tile_texture_maps = load_textures(<< >>, << >>)
    /\ call = NoCall

(* WindowEvent::KeyboardInput with any key code *)
KeyboardInputAny ==
    /\ app = "running"
    /\ \E code \in AllKeyCodes, is_pressed \in BOOLEAN :
        /\ player_controller' = handle_key(player_controller, code, is_pressed)
        /\ app' = IF code = "Escape" /\ is_pressed THEN "exited" ELSE app
        /\ call' = [op |-> "handle_key", code |-> code,
                    is_pressed |-> is_pressed,
                    controller |-> player_controller,
                    position |-> player_position,
                    rotation |-> player_rotation]
    /\ UNCHANGED << map, renderer_vars, projection_plane_width,
                    projection_plane_y_center, player_dist_to_projection_plane,
                    rays, player_position, player_rotation, frames, turns,
                    outcome, fresh, prev >>

NextKey ==
    \/ Resumed
    \/ KeyboardInputAny

SpecKey == InitKey /\ [][NextKey]_vars

(***************************************************************************)
(* update() called repeatedly with no input between the calls: the window  *)
(* delivers its resize, key and mouse events before the first frame only   *)
(***************************************************************************)
BeforeFirstFrame ==
    /\ frames = 0
    /\ \/ Resized
       \/ KeyboardInput
       \/ MouseMotion

NextRepeat ==
    \/ Resumed
    \/ BeforeFirstFrame
    \/ RedrawRequested

SpecRepeat == Init /\ [][NextRepeat]_vars

(***************************************************************************)
(* keep_in_range on its own: x up to MaxX either way, the range of the     *)
(* degrees that update_positions passes, a range around zero, a range off  *)
(* zero                                                                    *)
(***************************************************************************)
Ranges == { << 0, 360 >>, << -180, 180 >>, << 5, 12 >> }

InitRange ==
    /\ Unstarted
    /\ map = MapRoom
    /\ tile_texture_maps = load_textures(<< >>, << >>)
    /\ call \in [op : { "args" }, x : (-MaxX)..MaxX, range : Ranges,
                 result : { 0 }]

KeepInRangeCall ==
    /\ call.op = "args"
    /\ call' = [call EXCEPT
                  !.op = "keep_in_range",
                  !.result = keep_in_range(call.x, call.range[1], call.range[2])]
    /\ UNCHANGED << app, map, renderer_vars, raycaster_vars, frames, turns,
                    outcome, fresh, prev >>

NextRange == KeepInRangeCall

SpecRange == InitRange /\ [][NextRange]_vars

(***************************************************************************)
(* get_ray_angles and get_fish_table on their own: the even fields of view *)
(* up to MaxFov degrees, the widths up to MaxWidth                         *)
(***************************************************************************)
InitTables ==
    /\ Unstarted
    /\ map = MapRoom
    /\ tile_texture_maps = load_textures(<< >>, << >>)
    /\ call \in [op : { "args" },
                 fov : { f \in 2..MaxFov : f % 2 = 0 },
                 width : 1..MaxWidth,
                 result : { << >> }]

GetRayAnglesCall ==
    /\ call.op = "args"
    /\ call' = [call EXCEPT !.op = "get_ray_angles",
                            !.result = get_ray_angles(call.fov, call.width)]
    /\ UNCHANGED << app, map, renderer_vars, raycaster_vars, frames, turns,
                    outcome, fresh, prev >>

GetFishTableCall ==
    /\ call.op = "args"
    /\ call' = [call EXCEPT !.op = "get_fish_table",
                            !.result = get_fish_table(call.width)]
    /\ UNCHANGED << app, map, renderer_vars, raycaster_vars, frames, turns,
                    outcome, fresh, prev >>

SpecTables == InitTables /\ [][GetRayAnglesCall \/ GetFishTableCall]_vars

(***************************************************************************)
(* update() in the walled room: the session as resumed() leaves it on      *)
(* MapRoom with an even width, the player moved to the centre of the open  *)
(* centre tile and turned to a rotation of the 5 degree grid               *)
(***************************************************************************)
RoomCentre == [x |-> tile_size + tile_size \div 2, y |-> tile_size + tile_size \div 2]

InitRoom ==
    /\ app = "running"
    /\ map = MapRoom
    /\ \E width \in { 2, 4 }, order \in Orders(DOMAIN MapRoom.tile_types) :
        /\ config = [width |-> width, height |-> 2]
        /\ tile_texture_maps = load_textures(MapRoom.tile_types, order)
        /\ wall_instances = [i \in 1..width |-> DefaultWallInstance]
        /\ quad_instance_buffer = [i \in 1..width |-> DefaultWallInstance]
        /\ projection_plane_width = width
        /\ player_dist_to_projection_plane = DistToProjectionPlane(width)
        /\ rays = [i \in 1..width |->
                     NewRay(get_ray_angles(fov, width)[i],
                            Unwrap(get_fish_table(width))[i])]
    /\ is_surface_configured \in BOOLEAN
    /\ drawn = 0
    /\ delta_time = 0
    /\ unrecorded = 0
    /\ projection_plane_y_center = 1
    /\ player_position = RoomCentre
    /\ player_rotation \in { r \in 0..355 : r % 5 = 0 }
    /\ player_controller = NoKeys
    /\ frames = 0
    /\ turns = 0
    /\ outcome = "none"
    /\ fresh = FALSE
    /\ prev = NoPrev
    /\ call = NoCall

SpecRoom == InitRoom /\ [][RedrawRequested]_vars

(***************************************************************************)
(* ray_tile_intersection on its own: the tile of row 1, col 1, origins     *)
(* around it and strictly outside it, the ray angles of the 5 degree grid, *)
(* any two sides                                                           *)
(***************************************************************************)
TileSides == { "Top", "Right", "Bottom", "Left" }

Origins ==
    { p \in [x : { 10, 64, 100, 128, 180 }, y : { 10, 64, 100, 128, 180 }] :
        ~(/\ tile_size <= p.x /\ p.x <= 2 * tile_size
          /\ tile_size <= p.y /\ p.y <= 2 * tile_size) }

InitTile ==
    /\ Unstarted
    /\ map = MapRoom
    /\ tile_texture_maps = load_textures(<< >>, << >>)
    /\ call \in [op : { "args" }, origin : Origins, row : { 1 }, col : { 1 },
                 ray_angle : { a \in 0..355 : a % 5 = 0 },
                 sides : TileSides \X TileSides,
                 result : { None }]

RayTileIntersectionCall ==
    /\ call.op = "args"
    /\ call' = [call EXCEPT
                  !.op = "ray_tile_intersection",
                  !.result = ray_tile_intersection(call.origin.x, call.origin.y,
                                 call.row, call.col, call.ray_angle, call.sides)]
    /\ UNCHANGED << app, map, renderer_vars, raycaster_vars, frames, turns,
                    outcome, fresh, prev >>

SpecTile == InitTile /\ [][RayTileIntersectionCall]_vars

(***************************************************************************)
(* ray_line_intersection on its own: the sides of the four tiles of rows   *)
(* and columns 0 and 1 as the axis-aligned segments, origins on and off    *)
(* their lines, the ray angles of the 5 degree grid                        *)
(***************************************************************************)
InitLine ==
    /\ Unstarted
    /\ map = MapRoom
    /\ tile_texture_maps = load_textures(<< >>, << >>)
    /\ call \in [op : { "args" },
                 origin : [x : { 10, 64, 100, 128, 180 },
                           y : { 10, 64, 100, 128, 180 }],
                 ray_angle : { a \in 0..355 : a % 5 = 0 },
                 segment : { SideSegment(row, col, side) :
                               row \in 0..1, col \in 0..1, side \in TileSides },
                 result : { None }]

RayLineIntersectionCall ==
    /\ call.op = "args"
    /\ call' = [call EXCEPT
                  !.op = "ray_line_intersection",
                  !.result = ray_line_intersection(call.origin.x, call.origin.y,
                                 call.ray_angle, call.segment[1], call.segment[2],
                                 call.segment[3], call.segment[4])]
    /\ UNCHANGED << app, map, renderer_vars, raycaster_vars, frames, turns,
                    outcome, fresh, prev >>

SpecLine == InitLine /\ [][RayLineIntersectionCall]_vars

(***************************************************************************)
(* the session in a hall: two open cells side by side inside the walls, so *)
(* that a ray from the start crosses an open cell before it meets a wall   *)
(***************************************************************************)
MapHall ==
    [tiles |-> << << 1, 1, 1, 1 >>, << 1, 0, 0, 1 >>, << 1, 1, 1, 1 >> >>,
     tile_types |-> (0 :> "FloorCeiling") @@ (1 :> "Wall")]

InitHall ==
    /\ Unstarted
    /\ map = MapHall
    /\ tile_texture_maps = load_textures(<< >>, << >>)
    /\ call = NoCall

SpecHall == InitHall /\ [][Next]_vars

(***************************************************************************)
(* The properties                                                          *)
(***************************************************************************)
(* the miss state of a ray *)
MissState(ray) ==
    /\ ray.len = INFINITY
    /\ ray.tile_index = None
    /\ ray.tile_intersection = None
    /\ ray.tile_id = None
    /\ ray.tile_type = None
    /\ ray.tile_side = None
    /\ ray.tile_image_index = None

(* the last update() ran its stages to the end *)
StagesRan == frames > 0 /\ outcome \in { "Ok", "Err" }

(* C1: every update() runs motion integration, then ray casting, then the  *)
(* building of the wall instances, then the hand-off to the renderer: the  *)
(* rays a frame leaves behind are the rays cast from the position that     *)
(* frame's motion integration produced, the instances it leaves behind are *)
(* built from those rays, and what the renderer was handed is those        *)
(* instances.                                                              *)
C1_StagesInOrder ==
    (fresh /\ StagesRan) =>
        /\ update_rays(rays, map, tile_texture_maps.wall_image_map,
                       player_position, player_rotation) = Some(rays)
        /\ update_quads(wall_instances, rays, tile_texture_maps.wall_image_map,
                        player_dist_to_projection_plane,
                        projection_plane_y_center) = wall_instances
        /\ (prev.rendered => quad_instance_buffer = wall_instances)

(* a frame that moved the player, hit a wall and reached the draw *)
C1_Witness ==
    /\ fresh
    /\ outcome = "Ok"
    /\ prev.moved
    /\ prev.rendered
    /\ HitColumns(rays) # { }

(* C2: after every update() the instance array holds exactly width         *)
(* instances, width the current width of the projection (the width the     *)
(* renderer draws), one per column in column order: every column i of      *)
(* 0..width was written in this frame and, when it has a hit, its          *)
(* screen_x is i.                                                          *)
C2_InstancesCoverWidth ==
    [][(frames' = frames + 1 /\ outcome' = "Ok") =>
          /\ Len(wall_instances') = config'.width
          /\ \A i \in 1..config'.width :
                /\ i <= Len(rays')
                /\ i <= Len(wall_instances')
                /\ IsSome(rays'[i].tile_intersection) =>
                       wall_instances'[i].screen_x = i - 1]_vars

(* C3: a ray in the miss state after ray casting gets the all-zero         *)
(* instance at its column, so the column never keeps the instance of an    *)
(* earlier frame in which it had a hit.                                    *)
C3_MissWritesEmptyInstance ==
    StagesRan =>
        \A i \in 1..Len(rays) :
            MissState(rays[i]) => wall_instances[i] = DefaultWallInstance

(* a column that held a hit before the last frame and is a miss after it *)
C3_Witness ==
    /\ outcome = "Ok"
    /\ \E i \in prev.hit_columns :
        /\ MissState(rays[i])
        /\ wall_instances[i] = DefaultWallInstance

(* no wall tile of the grid is met by the ray *)
NoWallHit(ray) ==
    \A row \in 0..(MapRows(map) - 1) : \A col \in 0..(MapCols(map) - 1) :
        tile_type(map, Unwrap(tile_id(map, row, col))) = Some("Wall") =>
            ray_tile_intersection(player_position.x, player_position.y, row, col,
                keep_in_range(ray.angle + player_rotation, 0, 360),
                SidesToCheck(get_angle_quadrant(
                    keep_in_range(ray.angle + player_rotation, 0, 360)))) = None

(* C4: when no wall tile of the grid intersects a ray, ray casting ends    *)
(* without an error and leaves the ray in the miss state: the distance is  *)
(* +infinity and every hit field is empty.                                 *)
C4_NoHitIsMissState ==
    (fresh /\ frames > 0 /\ WellFormed(map)) =>
        \A i \in 1..Len(rays) :
            NoWallHit(rays[i]) => (StagesRan /\ MissState(rays[i]))

(* a ray that met no wall in a frame that ended well *)
C4_Witness ==
    /\ fresh
    /\ outcome = "Ok"
    /\ WellFormed(map)
    /\ \E i \in 1..Len(rays) : NoWallHit(rays[i]) /\ rays[i].len = INFINITY

(* C5: after any sequence of resize and update calls the number of rays,   *)
(* the number of instances in the instance array and the number of         *)
(* instances drawn all equal the current width of the projection.          *)
C5_CountsFollowWidth ==
    (app = "running" /\ frames > 0) =>
        /\ Len(rays) = config.width
        /\ Len(wall_instances) = config.width
        /\ (prev.rendered => drawn = config.width)

C7_MalformedMapRejected ==
    ~WellFormed(map) => (app # "running" /\ frames = 0)

(* C8: a tile id of the grid without a TileType entry is reported as an    *)
(* error: an update() over such a grid does not end well.                  *)
C8_UntypedTileIsError ==
    (frames > 0 /\ WellFormed(map)
        /\ \E id \in GridIds(map) : id \notin DOMAIN map.tile_types) =>
        outcome # "Ok"

Flags(f, b, l, r) ==
    [key_forward |-> f, key_back |-> b, key_left |-> l, key_right |-> r]

(* the eight rows of the table of directions: the flags, the offset *)
DirectionTable ==
    { << Flags(TRUE, FALSE, FALSE, FALSE), 0 >>,
      << Flags(FALSE, TRUE, FALSE, FALSE), 180 >>,
      << Flags(FALSE, FALSE, FALSE, TRUE), 90 >>,
      << Flags(FALSE, FALSE, TRUE, FALSE), -90 >>,
      << Flags(TRUE, FALSE, FALSE, TRUE), 45 >>,
      << Flags(TRUE, FALSE, TRUE, FALSE), -45 >>,
      << Flags(FALSE, TRUE, FALSE, TRUE), 135 >>,
      << Flags(FALSE, TRUE, TRUE, FALSE), -135 >> }

(* C9: for every rotation r the direction of the movement is, brought into *)
(* [0, 360): forward r, back r + 180, right r + 90, left r - 90, forward   *)
(* and right r + 45, forward and left r - 45, back and right r + 135, back *)
(* and left r - 135; the position advances by speed times the elapsed      *)
(* seconds along (cos, sin) of that direction.                             *)
C9_DirectionTable ==
    call.op = "update_positions" =>
        \A row \in DirectionTable :
            call.controller = row[1] =>
                /\ call.dir = (call.rotation + row[2]) % 360
                /\ call.result.x - call.position.x =
                       Trunc(MoveSpeedPerSec * call.delta
                                 * CosDeg((call.rotation + row[2]) % 360),
                             TicksPerSec * TrigScale)
                /\ call.result.y - call.position.y =
                       Trunc(MoveSpeedPerSec * call.delta
                                 * SinDeg((call.rotation + row[2]) % 360),
                             TicksPerSec * TrigScale)

(* back and left were held at a negative rotation for a tick *)
C9_Witness ==
    /\ call.op = "update_positions"
    /\ call.controller = Flags(FALSE, TRUE, TRUE, FALSE)
    /\ call.rotation < 0
    /\ call.delta > 0
    /\ call.result # call.position

(* the flags with each opposing pair that is set together cleared *)
Cancelled(pc) ==
    Flags(pc.key_forward /\ ~pc.key_back, pc.key_back /\ ~pc.key_forward,
          pc.key_left /\ ~pc.key_right, pc.key_right /\ ~pc.key_left)

(* C10: opposing flags cancel: for every combination of the four flags the *)
(* position moves as it does with each pair forward and back, left and     *)
(* right, that is set together cleared.                                    *)
C10_OpposingFlagsCancel ==
    call.op = "update_positions" =>
        call.result = update_positions(call.position, Cancelled(call.controller),
                                       call.rotation, call.delta)

(* the flag a key code names; "none" for a key that is not a movement key *)
FlagOfKey(code) ==
    CASE code = "KeyW" -> "key_forward"
      [] code = "KeyS" -> "key_back"
      [] code = "KeyA" -> "key_left"
      [] code = "KeyD" -> "key_right"
      [] OTHER -> "none"

(* C11: a key-down event sets and a key-up event clears exactly the flag   *)
(* of its key (W forward, S back, A left, D right); the other three flags, *)
(* the player position and the player rotation stay as the event found     *)
(* them, and an event for any other key changes none of them               *)
C11_KeysIndependent ==
    call.op = "handle_key" =>
        /\ \A flag \in DOMAIN NoKeys :
               player_controller[flag] =
                   IF FlagOfKey(call.code) = flag
                   THEN call.is_pressed
                   ELSE call.controller[flag]
        /\ player_position = call.position
        /\ player_rotation = call.rotation

(* the back key is released while all four flags are set *)
C11_Witness ==
    /\ call.op = "handle_key"
    /\ call.code = "KeyS"
    /\ ~call.is_pressed
    /\ \A flag \in DOMAIN NoKeys : call.controller[flag]
    /\ ~player_controller.key_back
    /\ player_controller.key_forward

(* C12: with no movement flag set, update_positions leaves the player      *)
(* position unchanged, for every elapsed time and every rotation           *)
C12_NoFlagNoMotion ==
    (call.op = "update_positions" /\ call.controller = NoKeys) =>
        call.result = call.position

(* no flag is set, time has passed, the rotation is negative and off the   *)
(* axes                                                                    *)
C12_Witness ==
    /\ call.op = "update_positions"
    /\ call.controller = NoKeys
    /\ call.delta > 0
    /\ call.rotation = -35
    /\ call.result = [x |-> InitialX, y |-> InitialY]

(* C13: an update() that follows an update() with no input in between and  *)
(* integrates zero elapsed time produces the same instance array, entry    *)
(* for entry, and the same player position and ray hit state               *)
C13_RepeatedUpdateIsIdentical ==
    [][(/\ frames >= 1
        /\ frames' = frames + 1
        /\ outcome = "Ok"
        /\ delta_time = 0)
       => /\ wall_instances' = wall_instances
          /\ player_position' = player_position
          /\ rays' = rays
          /\ outcome' # "Panic"]_vars

(* two updates with the forward key held and zero elapsed time: the player *)
(* is where the session started, rays hold hits, the frame was drawn       *)
C13_Witness ==
    /\ frames = 2
    /\ outcome = "Ok"
    /\ player_controller.key_forward
    /\ player_position = [x |-> InitialX, y |-> InitialY]
    /\ ~prev.moved
    /\ prev.rendered
    /\ prev.hit_columns # { }
    /\ HitColumns(rays) = prev.hit_columns
    /\ quad_instance_buffer = wall_instances

(* C14: the first update() after the session starts integrates an elapsed  *)
(* time of zero: whatever key flags are set before the first frame, the    *)
(* player position after the first update() is the initial position        *)
C14_FirstUpdateDoesNotMove ==
    frames = 1 =>
        /\ player_position = [x |-> InitialX, y |-> InitialY]
        /\ ~prev.moved

(* the first update() ran to its end with the forward and right keys held  *)
C14_Witness ==
    /\ frames = 1
    /\ outcome = "Ok"
    /\ player_controller.key_forward
    /\ player_controller.key_right
    /\ player_position = [x |-> InitialX, y |-> InitialY]

(* C15: keep_in_range(x, min, max) returns a value v with min <= v < max   *)
(* that differs from x by an integer multiple of max - min, for negative x *)
(* and for x many multiples of the range outside the bounds                *)
C15_ResultInRange ==
    call.op = "keep_in_range" =>
        /\ call.range[1] <= call.result
        /\ call.result < call.range[2]
        /\ \E k \in (-MaxX)..MaxX :
               call.result = call.x + k * (call.range[2] - call.range[1])

(* a negative x more than two turns below the range of the degrees *)
C15_Witness ==
    /\ call.op = "keep_in_range"
    /\ call.range = << 0, 360 >>
    /\ call.x = -725
    /\ call.result = 355

C17_FishTableCoversWidth ==
    call.op = "get_fish_table" =>
        /\ call.result # None
        /\ Len(Unwrap(call.result)) = call.width
        /\ \A i \in 1..call.width :
            /\ Unwrap(call.result)[i].num # 0
            /\ Unwrap(call.result)[i] =
                   [num |-> TrigScale,
                    den |-> CosDeg(((i - 1 - call.width \div 2) * 60)
                                   \div call.width)]

(* the ray of the centre column: its angle off the rotation is 0 *)
CentreRay == rays[projection_plane_width \div 2 + 1]

(* no column of the frame is an empty instance, every ray holds a hit *)
NoEmptyColumn ==
    \A i \in 1..Len(rays) :
        /\ IsSome(rays[i].tile_intersection)
        /\ wall_instances[i] # DefaultWallInstance

(* C18: in the walled 3x3 room, the player at the centre of the centre     *)
(* tile and facing the row 0 wall, the centre ray holds a hit on the       *)
(* Bottom side of the row 0 tile ahead, the side turned to the player, at  *)
(* half a tile's distance, and no column of the frame is an empty instance *)
C18_FacingNorthHitsBottomSide ==
    (frames >= 1 /\ player_rotation = 270) =>
        /\ CentreRay.angle = 0
        /\ CentreRay.tile_index = Some(1)
        /\ CentreRay.tile_side = Some("Bottom")
        /\ CentreRay.len = Finite(tile_size \div 2, 1)
        /\ NoEmptyColumn

(* the frame of the player facing the row 0 wall over four columns *)
C18_Witness ==
    /\ frames = 1
    /\ outcome = "Ok"
    /\ player_rotation = 270
    /\ projection_plane_width = 4
    /\ player_position = RoomCentre
    /\ CentreRay.tile_side = Some("Bottom")
    /\ NoEmptyColumn

(* C18 as the specification has it: the centre ray reports side = Top at a *)
(* distance of about tile_size times the one row above the player          *)
C18_FacingNorthHitsTopSide ==
    (frames >= 1 /\ player_rotation = 270) =>
        /\ CentreRay.tile_side = Some("Top")
        /\ ~CentreRay.len.inf
        /\ Abs(CentreRay.len.num - tile_size * CentreRay.len.den)
               <= CentreRay.len.den
        /\ NoEmptyColumn

(* the hit of the ray of the call c on the segment seg *)
HitOnSegment(c, seg) ==
    ray_line_intersection(c.origin.x, c.origin.y, c.ray_angle,
                          seg[1], seg[2], seg[3], seg[4])

(* the hit of the ray of the call c on the k-th side it was given *)
HitOnCandidate(c, k) == HitOnSegment(c, SideSegment(c.row, c.col, c.sides[k]))

(* the distance from the origin of the call c to the point p of its ray *)
DistTo(c, p) == EuclidDist(c.origin.x, c.origin.y, c.ray_angle, p)

(* the result r is the hit on the k-th candidate side, with its side and   *)
(* its distance                                                            *)
IsHitOnCandidate(c, r, k) ==
    /\ HitOnCandidate(c, k) # None
    /\ r.side = c.sides[k]
    /\ r.intersection = Unwrap(HitOnCandidate(c, k))
    /\ r.dist = DistTo(c, Unwrap(HitOnCandidate(c, k)))

(* C19: for an origin strictly outside the tile, ray_tile_intersection     *)
(* returns no hit exactly when neither of the two sides it is given is     *)
(* hit, and otherwise the hit on one of those two sides, tagged with that  *)
(* side and its distance from the origin, no hit on the two sides being    *)
(* closer                                                                  *)
C19_CloserOfTwoSides ==
    call.op = "ray_tile_intersection" =>
        /\ call.result = None <=>
               (HitOnCandidate(call, 1) = None /\ HitOnCandidate(call, 2) = None)
        /\ call.result # None =>
            /\ \E k \in 1..2 : IsHitOnCandidate(call, Unwrap(call.result), k)
            /\ \A k \in 1..2 :
                   HitOnCandidate(call, k) # None =>
                       ~DistLess(DistTo(call, Unwrap(HitOnCandidate(call, k))),
                                 Unwrap(call.result).dist)

(* both sides given are hit and the second is strictly the closer one: a   *)
(* ray from above the tile, given Bottom before Top                        *)
C19_Witness ==
    /\ call.op = "ray_tile_intersection"
    /\ call.sides = << "Bottom", "Top" >>
    /\ HitOnCandidate(call, 1) # None
    /\ HitOnCandidate(call, 2) # None
    /\ call.result # None
    /\ Unwrap(call.result).side = "Top"
    /\ DistLess(Unwrap(call.result).dist,
                DistTo(call, Unwrap(HitOnCandidate(call, 1))))

(* the ray of the call c runs along its axis-aligned segment's direction *)
Parallel(c) ==
    \/ c.segment[2] = c.segment[4] /\ SinDeg(c.ray_angle) = 0
    \/ c.segment[1] = c.segment[3] /\ CosDeg(c.ray_angle) = 0

Between(a, v, b) == (a <= v /\ v <= b) \/ (b <= v /\ v <= a)

(* the point p lies on the segment seg, its two endpoints included *)
OnSegment(p, seg) ==
    /\ Between(seg[1] * p.den, p.xn, seg[3] * p.den)
    /\ Between(seg[2] * p.den, p.yn, seg[4] * p.den)

(* the point p lies on the ray of the call c, at or ahead of its origin *)
OnRay(c, p) ==
    /\ (p.xn - c.origin.x * p.den) * SinDeg(c.ray_angle)
           = (p.yn - c.origin.y * p.den) * CosDeg(c.ray_angle)
    /\ (p.xn - c.origin.x * p.den) * CosDeg(c.ray_angle) >= 0
    /\ (p.yn - c.origin.y * p.den) * SinDeg(c.ray_angle) >= 0

AdjustedAngle(ray) == keep_in_range(ray.angle + player_rotation, 0, 360)

(* the cells of the grid, row-major, and those that hold a wall *)
Cells == 0..(MapRows(map) * MapCols(map) - 1)

IsWallCell(k) ==
    tile_type(map, Unwrap(tile_id(map, k \div MapCols(map), k % MapCols(map))))
        = Some("Wall")

(* the hit of a ray of angle a from the player on the cell k *)
CellHit(k, a) ==
    ray_tile_intersection(player_position.x, player_position.y,
                          k \div MapCols(map), k % MapCols(map), a,
                          SidesToCheck(get_angle_quadrant(a)))

WallHit(k, a) == IsWallCell(k) /\ CellHit(k, a) # None

(* the hit on cell k is strictly closer than the hits on the wall cells    *)
(* before k and not farther than those on the wall cells after k           *)
FirstClosest(k, a) ==
    \A j \in Cells \ { k } :
        WallHit(j, a) =>
            IF j < k
            THEN DistLess(Unwrap(CellHit(k, a)).dist, Unwrap(CellHit(j, a)).dist)
            ELSE ~DistLess(Unwrap(CellHit(j, a)).dist, Unwrap(CellHit(k, a)).dist)

(* the ray holds the hit on cell k with the cell's own data *)
RecordsCell(ray, k, a) ==
    /\ ray.len = DistFloor(Unwrap(CellHit(k, a)).dist)
    /\ ray.tile_intersection = Some(Unwrap(CellHit(k, a)).intersection)
    /\ ray.tile_side = Some(Unwrap(CellHit(k, a)).side)
    /\ ray.tile_index = Some(k)
    /\ ray.tile_id = tile_id(map, k \div MapCols(map), k % MapCols(map))
    /\ ray.tile_type = Some("Wall")

(* C21: the hit a ray records is the closest over all wall tiles of the    *)
(* grid; among wall tiles at exactly the same distance it is the one       *)
(* scanned first in row-major order, recorded with its own side, index,    *)
(* id and type; a ray that no wall tile stops is in the miss state         *)
C21_ClosestFirstScanned ==
    frames >= 1 =>
        \A i \in 1..Len(rays) :
            IF \E k \in Cells : WallHit(k, AdjustedAngle(rays[i]))
            THEN \E k \in Cells :
                    /\ WallHit(k, AdjustedAngle(rays[i]))
                    /\ FirstClosest(k, AdjustedAngle(rays[i]))
                    /\ RecordsCell(rays[i], k, AdjustedAngle(rays[i]))
            ELSE MissState(rays[i])

(* the centre ray runs into the corner shared by the cells 5, 7 and 8: all *)
(* three give the same distance and cell 5 is recorded                     *)
C21_Witness ==
    /\ frames = 1
    /\ player_rotation = 45
    /\ WallHit(5, 45) /\ WallHit(7, 45) /\ WallHit(8, 45)
    /\ Unwrap(CellHit(7, 45)).dist = Unwrap(CellHit(5, 45)).dist
    /\ Unwrap(CellHit(8, 45)).dist = Unwrap(CellHit(5, 45)).dist
    /\ FirstClosest(5, 45)
    /\ CentreRay.tile_index = Some(5)
    /\ CentreRay.tile_side = Some("Left")

(* the hit of the ray of the call c on a side of its tile, given or not *)
HitOnSide(c, side) == HitOnSegment(c, SideSegment(c.row, c.col, side))

(* the two sides that update_rays gives for the ray angle of the call c *)
PrunedSides(c) == SidesToCheck(get_angle_quadrant(c.ray_angle))

(* C22: for every ray angle and an origin outside the tile, the hit found  *)
(* on the two sides that the angle's quadrant selects is the closest hit   *)
(* over all four sides of the tile: there is a hit exactly when some side  *)
(* of the four is hit, and no side of the four is hit closer               *)
C22_PruningKeepsFirstEdge ==
    (call.op = "ray_tile_intersection" /\ call.sides = PrunedSides(call)) =>
        /\ call.result = None <=>
               \A side \in TileSides : HitOnSide(call, side) = None
        /\ call.result # None =>
            /\ \E side \in TileSides :
                /\ HitOnSide(call, side) = Some(Unwrap(call.result).intersection)
                /\ Unwrap(call.result).dist =
                       DistTo(call, Unwrap(HitOnSide(call, side)))
            /\ \A side \in TileSides :
                   HitOnSide(call, side) # None =>
                       ~DistLess(DistTo(call, Unwrap(HitOnSide(call, side))),
                                 Unwrap(call.result).dist)

(* a ray off the axes enters through Left and would leave through a side   *)
(* that is not tested, farther away                                        *)
C22_Witness ==
    /\ call.op = "ray_tile_intersection"
    /\ call.origin = [x |-> 10, y |-> 100]
    /\ call.ray_angle = 10
    /\ call.sides = PrunedSides(call)
    /\ call.result # None
    /\ Unwrap(call.result).side = "Left"
    /\ HitOnSide(call, "Right") # None
    /\ DistLess(Unwrap(call.result).dist,
                DistTo(call, Unwrap(HitOnSide(call, "Right"))))

(* the rays as Raycaster::new builds them for the width of the projection: *)
(* the base angle and the fisheye factor of the column, no hit             *)
NewRays ==
    [i \in 1..projection_plane_width |->
        NewRay(get_ray_angles(fov, projection_plane_width)[i],
               Unwrap(get_fish_table(projection_plane_width))[i])]

(* C23: after the ray casting of a frame, the hit state of every ray is    *)
(* what casting a newly built ray from this frame's position and rotation  *)
(* over the map gives, whatever the ray held before: a ray that held a hit *)
(* and meets no wall now has every hit field empty; the base angle and the *)
(* fisheye factor of every ray are those it was built with                 *)
C23_HitStateOverwritten ==
    (fresh /\ StagesRan) =>
        /\ Some(rays) = update_rays(NewRays, map,
                                    tile_texture_maps.wall_image_map,
                                    player_position, player_rotation)
        /\ \A i \in 1..Len(rays) :
            /\ rays[i].angle = NewRays[i].angle
            /\ rays[i].fisheye_correction = NewRays[i].fisheye_correction
            /\ (i \in prev.hit_columns /\ rays[i].tile_intersection = None)
                   => MissState(rays[i])

(* the second frame: a ray that held a hit after the first frame meets no  *)
(* wall in the second                                                      *)
C23_Witness ==
    /\ fresh
    /\ frames = 2
    /\ outcome = "Ok"
    /\ \E i \in prev.hit_columns :
        /\ rays[i].len = INFINITY
        /\ rays[i].tile_side = None
        /\ rays[i].tile_image_index = None
        /\ rays[i].angle = NewRays[i].angle

(* C24: after any update(), every ray that records a hit records a cell    *)
(* of the grid whose type is Wall, with that cell's id; a cell of another  *)
(* type is never the recorded one, also when the ray crosses it before the *)
(* wall, and no update() ends in a panic over such a cell                  *)
C24_OnlyWallsAreHit ==
    frames > 0 =>
        /\ outcome # "Panic"
        /\ \A i \in 1..Len(rays) :
            rays[i].tile_index # None =>
                /\ Unwrap(rays[i].tile_index) \in Cells
                /\ IsWallCell(Unwrap(rays[i].tile_index))
                /\ rays[i].tile_type = Some("Wall")
                /\ rays[i].tile_id =
                       tile_id(map, Unwrap(rays[i].tile_index) \div MapCols(map),
                               Unwrap(rays[i].tile_index) % MapCols(map))

(* a ray crosses a cell that is no wall and records the wall behind it *)
C24_Witness ==
    /\ fresh
    /\ outcome = "Ok"
    /\ \E i \in 1..Len(rays) : \E k \in Cells :
        /\ rays[i].tile_index # None
        /\ ~IsWallCell(k)
        /\ CellHit(k, AdjustedAngle(rays[i])) # None
        /\ DistLess(Unwrap(CellHit(k, AdjustedAngle(rays[i]))).dist,
                    Unwrap(CellHit(Unwrap(rays[i].tile_index),
                                   AdjustedAngle(rays[i]))).dist)

(* C25: after any sequence of render() calls, those that return early for  *)
(* a surface that is not configured included, the delta time recorded by a *)
(* render() call equals the time between that call and the render() call   *)
(* immediately before it                                                   *)
C25_DeltaIsTimeSincePreviousCall ==
    (frames >= 2 /\ outcome # "Panic") => delta_time = prev.elapsed

(* q is the floor of the coordinate n / den, den > 0 *)
IsFloorOf(q, n, den) == q * den <= n /\ n < (q + 1) * den

(* off is the texture offset of the coordinate n / den: the floor of the   *)
(* coordinate modulo tile_size, counted from the far end when mirrored     *)
IsOffsetOf(off, n, den, mirrored) ==
    \E q \in 0..(MapCols(map) + MapRows(map)) * tile_size :
        /\ IsFloorOf(q, n, den)
        /\ q % tile_size = IF mirrored THEN tile_size - off - 1 ELSE off

(* C26: for every ray with a hit the texture offset is an integer of       *)
(* 0..tile_size-1, the floor of the intersection's x modulo tile_size      *)
(* mirrored as tile_size - offset - 1 when the side is Top or Bottom, the  *)
(* floor of its y modulo tile_size when the side is Left or Right, and the *)
(* texture U of the instance is (offset + 0.5) / tile_size, strictly       *)
(* between 0 and 1                                                         *)
C26_TextureOffset ==
    StagesRan =>
        \A i \in 1..Len(rays) :
            (IsSome(rays[i].tile_intersection) /\ IsSome(rays[i].tile_side)
             /\ IsSome(rays[i].tile_id)) =>
                /\ \E off \in 0..(tile_size - 1) :
                    /\ wall_instances[i].tex_u =
                           [num |-> 2 * off + 1, den |-> 2 * tile_size]
                    /\ IF Unwrap(rays[i].tile_side) \in { "Top", "Bottom" }
                       THEN IsOffsetOf(off, Unwrap(rays[i].tile_intersection).xn,
                                       Unwrap(rays[i].tile_intersection).den, TRUE)
                       ELSE IsOffsetOf(off, Unwrap(rays[i].tile_intersection).yn,
                                       Unwrap(rays[i].tile_intersection).den, FALSE)
                /\ 0 < wall_instances[i].tex_u.num
                /\ wall_instances[i].tex_u.num < wall_instances[i].tex_u.den

(* the centre ray meets a Bottom side at x = 96: the offset 32 is mirrored *)
(* to 31 and the texture U is 31.5 / 64                                    *)
C26_Witness ==
    /\ frames = 1
    /\ outcome = "Ok"
    /\ CentreRay.tile_side = Some("Bottom")
    /\ Unwrap(CentreRay.tile_intersection).xn
           = (tile_size + tile_size \div 2) * Unwrap(CentreRay.tile_intersection).den
    /\ wall_instances[projection_plane_width \div 2 + 1].tex_u
           = [num |-> 2 * (tile_size \div 2 - 1) + 1, den |-> 2 * tile_size]

(***************************************************************************)
(* A walk in the room: the session runs on MapRoom, the player stands at   *)
(* the start, has turned to a rotation of the grid and holds W; the last   *)
(* render() measured one tick.  frames counts the frames of the walk.      *)
(***************************************************************************)
InitWalk ==
    /\ app = "running"
    /\ map = MapRoom
    /\ \E width \in { 2, 4 }, order \in Orders(DOMAIN MapRoom.tile_types) :
        /\ config = [width |-> width, height |-> 2]
        /\ tile_texture_maps = load_textures(MapRoom.tile_types, order)
        /\ wall_instances = [i \in 1..width |-> DefaultWallInstance]
        /\ quad_instance_buffer = [i \in 1..width |-> DefaultWallInstance]
        /\ projection_plane_width = width
        /\ player_dist_to_projection_plane = DistToProjectionPlane(width)
        /\ rays = [i \in 1..width |->
                     NewRay(get_ray_angles(fov, width)[i],
                            Unwrap(get_fish_table(width))[i])]
    /\ is_surface_configured = TRUE
    /\ drawn = 0
    /\ delta_time = 1
    /\ unrecorded = 0
    /\ projection_plane_y_center = 1
    /\ player_position = [x |-> InitialX, y |-> InitialY]
    /\ player_rotation \in { r \in 0..355 : r % 5 = 0 }
    /\ player_controller = [NoKeys EXCEPT !.key_forward = TRUE]
    /\ frames = 0
    /\ turns = 0
    /\ outcome = "none"
    /\ fresh = FALSE
    /\ prev = NoPrev
    /\ call = NoCall

SpecWalk == InitWalk /\ [][RedrawRequested]_vars

(* C27: every ray that records a hit stores a distance that is strictly    *)
(* positive, at every position the motion integration reaches, so that the *)
(* top and the height of its wall instance are finite numbers              *)
C27_HitDistancePositive ==
    StagesRan =>
        \A i \in 1..Len(rays) :
            (IsSome(rays[i].tile_intersection) /\ IsSome(rays[i].tile_side) /\ IsSome(rays[i].tile_id)) =>
                /\ ~rays[i].len.inf
                /\ rays[i].len.num > 0
                /\ ~wall_instances[i].top.nan
                /\ ~wall_instances[i].height.nan

(***************************************************************************)
(* load_textures taken on its own, over every table of tile types with     *)
(* ids up to MaxTileId and every order of the walk over the table          *)
(***************************************************************************)
(* a byte array of load_textures: the tile ids whose images were pushed,   *)
(* in the order of the pushes; kinds are the tile types that push to it    *)
ByteArray(tile_types, order, kinds) ==
    SelectSeq(order, LAMBDA k : tile_types[k] \in kinds)

InitLoad ==
    /\ Unstarted
    /\ map = MapRoom
    /\ tile_texture_maps = load_textures(<< >>, << >>)
    /\ \E tile_types \in TileTypeMaps :
        \E order \in Orders(DOMAIN tile_types) :
            call = [op |-> "args", tile_types |-> tile_types, order |-> order,
                    result |-> load_textures(<< >>, << >>),
                    wall_byte_array |-> << >>,
                    floor_byte_array |-> << >>,
                    ceiling_byte_array |-> << >>]

LoadTexturesCall ==
    /\ call.op = "args"
    /\ call' = [call EXCEPT
                  !.op = "load_textures",
                  !.result = load_textures(call.tile_types, call.order),
                  !.wall_byte_array =
                      ByteArray(call.tile_types, call.order, { "Wall" }),
                  !.floor_byte_array =
                      ByteArray(call.tile_types, call.order,
                                { "Floor", "FloorCeiling" }),
                  !.ceiling_byte_array =
                      ByteArray(call.tile_types, call.order,
                                { "Ceiling", "FloorCeiling" })]
    /\ UNCHANGED << app, map, renderer_vars, raycaster_vars, frames, turns,
                    outcome, fresh, prev >>

SpecLoad == InitLoad /\ [][LoadTexturesCall]_vars

(* image_map gives every tile id it maps a layer of byte_array that holds  *)
(* the image of that tile, and no two tile ids the same layer              *)
LayersOf(image_map, byte_array) ==
    /\ \A k \in DOMAIN image_map :
        /\ image_map[k] < Len(byte_array)
        /\ byte_array[image_map[k] + 1] = k
    /\ \A j, k \in DOMAIN image_map : image_map[j] = image_map[k] => j = k

(* C28: after load_textures the map of each category (wall, floor,         *)
(* ceiling) gives every tile id it holds a layer below the number of       *)
(* images loaded for the category, the layer is the place of the tile's    *)
(* own image in the array of the category, and no two tile ids of a        *)
(* category share a layer, for every mix of the four tile types            *)
C28_LayersIndexOwnImage ==
    call.op = "load_textures" =>
        /\ LayersOf(call.result.wall_image_map, call.wall_byte_array)
        /\ LayersOf(call.result.floor_image_map, call.floor_byte_array)
        /\ LayersOf(call.result.ceiling_image_map, call.ceiling_byte_array)

====
